---- MODULE Spec2Model ----
(***************************************************************************)
(* The TF-IDF retriever of rag.ipynb: a corpus is fitted once with         *)
(* TfidfVectorizer().fit_transform(corpus) and then queried any number of  *)
(* times with retrieve_documents(query, corpus, vectorizer, kb, top_n).    *)
(*                                                                         *)
(* Strings are sequences of one-character strings, so that tokenization    *)
(* (lowercasing, the token pattern \b\w\w+\b) is computed and not assumed. *)
(* Weights are kept as integers: idf is ln((1+n)/(1+df)) + 1 in            *)
(* thousandths, a row of the matrix is tf * idf before its L2 norm, and    *)
(* two cosine similarities are compared exactly as dot^2 / |d|^2 (the      *)
(* query's norm is common to all documents).  Similarities that are equal  *)
(* as numbers are equal here; on the inputs below the float64 computation  *)
(* gives the same order and the same ties.  0-based document ids are kept  *)
(* in related_docs_indices as in the source.                               *)
(***************************************************************************)
EXTENDS Integers, Sequences, FiniteSets

VARIABLES
    state,                 \* "unfitted" | "fitted" | "failed" (fit_transform raised)
    error,                 \* the exception fit_transform raised, or "none"
    corpus,                \* the list of documents given to fit_transform
    vectorizer,            \* [vocabulary_, idf_]: the fitted TfidfVectorizer
    vector_kb,             \* the term-weight matrix: one row per document
    argsort_ties,          \* the order in which this build's argsort leaves equal keys
    called,                \* whether a retrieve_documents call has returned
    query,                 \* argument of the last retrieve_documents call
    top_n,                 \* top_n of the last call (the default when omitted)
    top_n_omitted,         \* whether the last call left top_n out
    related_docs_indices,  \* the last call's ranked 0-based document ids
    related_docs,          \* the last call's return value
    remembered,            \* observer: one earlier call and what it returned
    call_error,            \* the exception a retrieve_documents call last raised, or "none"
    frames,                \* one frame of locals per caller of retrieve_documents in flight
    job,                   \* the DetailJob.forward call: its line, arguments, locals and output
    user                   \* the UserProfile cells: the last input, profile and error

vars == <<state, error, corpus, vectorizer, vector_kb, argsort_ties, called,
          query, top_n, top_n_omitted, related_docs_indices, related_docs,
          remembered, call_error, frames, job, user>>

fitted_vars == <<state, error, corpus, vectorizer, vector_kb, argsort_ties>>

\* the variables of the retriever notebook
retriever_vars == <<state, error, corpus, vectorizer, vector_kb, argsort_ties,
                    called, query, top_n, top_n_omitted, related_docs_indices,
                    related_docs, remembered, call_error, frames>>

(***************************************************************************)
(* Bounds.                                                                 *)
(***************************************************************************)
MaxDocs == 3
MaxTopN == 3
MaxCallers == 2
MaxNegated == 2
MaxSkills == 3
MaxTopK == 4

(***************************************************************************)
(* Characters and strings.                                                 *)
(***************************************************************************)
Uppercase == <<"A","B","C","D","E","F","G","H","I","J","K","L","M",
               "N","O","P","Q","R","S","T","U","V","W","X","Y","Z">>
Lowercase == <<"a","b","c","d","e","f","g","h","i","j","k","l","m",
               "n","o","p","q","r","s","t","u","v","w","x","y","z">>
Digits == {"0","1","2","3","4","5","6","7","8","9"}

Range(s) == {s[i] : i \in DOMAIN s}

\* str.lower() on one character
LowerOf == [i \in DOMAIN Uppercase |-> Lowercase[i]]
UpperIndex == [c \in Range(Uppercase) |-> CHOOSE i \in DOMAIN Uppercase : Uppercase[i] = c]
Lower(c) == IF c \in DOMAIN UpperIndex THEN LowerOf[UpperIndex[c]] ELSE c

\* \w of the token pattern
WordChars == Range(Lowercase) \cup Range(Uppercase) \cup Digits \cup {"_"}
IsWordChar(c) == c \in WordChars

\* a maximal run of word characters is a token when it has two characters or more
Flush(out, cur) == IF Len(cur) >= 2 THEN Append(out, cur) ELSE out

RECURSIVE Scan(_, _, _, _)
Scan(s, i, cur, out) ==
    IF i > Len(s) THEN Flush(out, cur)
    ELSE IF IsWordChar(s[i]) THEN Scan(s, i + 1, Append(cur, s[i]), out)
    ELSE Scan(s, i + 1, <<>>, Flush(out, cur))

\* an analyzer that keeps the case of the letters
TokenizeCaseSensitive(doc) == Scan(doc, 1, <<>>, <<>>)

\* build_analyzer(): lowercase, then re.findall(r"(?u)\b\w\w+\b", doc)
Tokenize(doc) == Scan([i \in DOMAIN doc |-> Lower(doc[i])], 1, <<>>, <<>>)

\* number of occurrences of term t in a token list
Count(tokens, t) == Cardinality({i \in DOMAIN tokens : tokens[i] = t})

(***************************************************************************)
(* fit_transform.                                                          *)
(***************************************************************************)
\* ln(k) in thousandths, k = 1..8
LnMilli == <<0, 693, 1099, 1386, 1609, 1792, 1946, 2079>>

Vocabulary(docs) == UNION {Range(Tokenize(docs[i])) : i \in DOMAIN docs}

DocFreq(docs, t) == Cardinality({i \in DOMAIN docs : t \in Range(Tokenize(docs[i]))})

\* a weight that grows with the number of documents containing the term
IdfGrowingWithDf(docs, t) == LnMilli[1 + DocFreq(docs, t)] + 1000

\* smooth_idf: ln((1 + n) / (1 + df)) + 1
Idf(docs, t) == LnMilli[1 + Len(docs)] - LnMilli[1 + DocFreq(docs, t)] + 1000

FitVectorizer(docs) ==
    [vocabulary_ |-> Vocabulary(docs),
     idf_        |-> [t \in Vocabulary(docs) |-> Idf(docs, t)]]

\* a transform with add-one counts: every vocabulary term gets a weight
TransformAddOne(vec, doc) ==
    LET tokens == Tokenize(doc)
    IN  [t \in vec.vocabulary_ |-> (Count(tokens, t) + 1) * vec.idf_[t]]

\* a transform that counts every token outside the vocabulary as an
\* occurrence of one vocabulary term
TransformFoldingUnknown(vec, doc) ==
    LET tokens == Tokenize(doc)
        unknown == Cardinality({i \in DOMAIN tokens : tokens[i] \notin vec.vocabulary_})
        bucket == CHOOSE t \in vec.vocabulary_ : TRUE
    IN  [t \in vec.vocabulary_ |->
           (Count(tokens, t) + IF t = bucket THEN unknown ELSE 0) * vec.idf_[t]]

\* transform(): one row of term counts times idf over the fitted vocabulary;
\* terms outside the vocabulary are dropped
Transform(vec, doc) ==
    LET tokens == Tokenize(doc)
    IN  [t \in vec.vocabulary_ |-> Count(tokens, t) * vec.idf_[t]]

RECURSIVE SumOver(_, _)
SumOver(f, S) ==
    IF S = {} THEN 0
    ELSE LET t == CHOOSE x \in S : TRUE IN f[t] + SumOver(f, S \ {t})

Dot(u, v) == SumOver([t \in DOMAIN u |-> u[t] * v[t]], DOMAIN u)

\* a matrix with rows for the documents that have a token only
FitTransformSkippingEmpty(docs) ==
    LET vec == FitVectorizer(docs)
        kept == SelectSeq(docs, LAMBDA d : Tokenize(d) # <<>>)
    IN  [i \in DOMAIN kept |->
           LET row == Transform(vec, kept[i])
           IN  [w |-> row, norm2 |-> Dot(row, row)]]

\* fit_transform(): one row per document, kept as the weights tf * idf
\* together with the squared L2 norm that normalize() divides them by
FitTransform(docs) ==
    LET vec == FitVectorizer(docs)
    IN  [i \in DOMAIN docs |->
           LET row == Transform(vec, docs[i])
           IN  [w |-> row, norm2 |-> Dot(row, row)]]

Unfitted == [vocabulary_ |-> {}, idf_ |-> <<>>]

(***************************************************************************)
(* Exact comparison of similarities.  dot^2 * |d|^2 exceeds the integer    *)
(* range, so the product is kept as six digits in base 10000, most         *)
(* significant first (a and n are below 10^8).                             *)
(***************************************************************************)
SquareTimes(a, n) ==
    LET a0 == a % 10000
        a1 == a \div 10000
        n0 == n % 10000
        n1 == n \div 10000
        \* a * a = s3 s2 s1 s0
        u0 == a0 * a0
        t1 == 2 * a0 * a1 + (u0 \div 10000)
        t2 == a1 * a1 + (t1 \div 10000)
        s0 == u0 % 10000
        s1 == t1 % 10000
        s2 == t2 % 10000
        s3 == t2 \div 10000
        \* times n = n1 n0
        k0 == s0 * n0
        k1 == s1 * n0 + s0 * n1 + (k0 \div 10000)
        k2 == s2 * n0 + s1 * n1 + (k1 \div 10000)
        k3 == s3 * n0 + s2 * n1 + (k2 \div 10000)
        k4 == s3 * n1 + (k3 \div 10000)
    IN  <<k4 \div 10000, k4 % 10000, k3 % 10000, k2 % 10000, k1 % 10000, k0 % 10000>>

\* lexicographic order of two digit sequences of one length
LessDigits(x, y) ==
    \E k \in DOMAIN x : x[k] < y[k] /\ \A j \in 1..(k - 1) : x[j] = y[j]

(***************************************************************************)
(* cosine_similarity and the ranking of retrieve_documents.                *)
(***************************************************************************)
\* cosine_similarity(query_vector, kb).flatten(): entry i stands for the number
\* dot / (|q| * |row i|), which normalize() makes 0 when either norm is 0
RECURSIVE SimilarityRow(_, _, _)
SimilarityRow(query_vector, kb, i) ==
    IF i > Len(kb) THEN <<>>
    ELSE <<[dot   |-> Dot(query_vector, kb[i].w),
            norm2 |-> kb[i].norm2]>> \o SimilarityRow(query_vector, kb, i + 1)

CosineSimilarity(query_vector, kb) == SimilarityRow(query_vector, kb, 1)

\* ranking by the raw dot product, without the division by the norms
DotLess(a, b) == a.dot < b.dot

\* a < b for two entries of one similarity row
SimLess(a, b) ==
    IF a.dot = 0 THEN b.dot > 0
    ELSE IF b.dot = 0 THEN FALSE
    ELSE LessDigits(SquareTimes(a.dot, b.norm2), SquareTimes(b.dot, a.norm2))

SimEqual(a, b) == ~SimLess(a, b) /\ ~SimLess(b, a)

\* the tie order taken the other way round
TiesFlipped(sims, ties, i, j) ==
    \/ SimLess(sims[i], sims[j])
    \/ ~SimLess(sims[j], sims[i]) /\ ties[i] > ties[j]

\* position i sorts before position j: a smaller similarity, or an equal one
\* that the tie order puts first (ties[i] < ties[j])
Before(sims, ties, i, j) ==
    \/ SimLess(sims[i], sims[j])
    \/ ~SimLess(sims[j], sims[i]) /\ ties[i] < ties[j]

\* an insertion that keeps one position per distinct similarity
RECURSIVE InsertDroppingTies(_, _, _, _)
InsertDroppingTies(sorted, i, sims, ties) ==
    IF sorted = <<>> THEN <<i>>
    ELSE IF SimEqual(sims[i], sims[Head(sorted)]) THEN sorted
    ELSE IF SimLess(sims[i], sims[Head(sorted)]) THEN <<i>> \o sorted
    ELSE <<Head(sorted)>> \o InsertDroppingTies(Tail(sorted), i, sims, ties)

RECURSIVE Insert(_, _, _, _)
Insert(sorted, i, sims, ties) ==
    IF sorted = <<>> THEN <<i>>
    ELSE IF Before(sims, ties, i, Head(sorted)) THEN <<i>> \o sorted
    ELSE <<Head(sorted)>> \o Insert(Tail(sorted), i, sims, ties)

RECURSIVE SortUpTo(_, _, _)
SortUpTo(k, sims, ties) ==
    IF k = 0 THEN <<>> ELSE Insert(SortUpTo(k - 1, sims, ties), k, sims, ties)

\* ndarray.argsort(): the 0-based positions in ascending order of similarity
Argsort(sims, ties) ==
    LET sorted == SortUpTo(Len(sims), sims, ties)
    IN  [k \in DOMAIN sorted |-> sorted[k] - 1]

\* seq[:n]
SliceFirst(seq, n) == SubSeq(seq, 1, IF n < Len(seq) THEN n ELSE Len(seq))

\* seq[-(n - 1):]
SliceOffByOne(seq, n) ==
    LET start == IF n > 1 THEN (IF Len(seq) > n - 1 THEN Len(seq) - (n - 1) ELSE 0)
                 ELSE 0
    IN  SubSeq(seq, start + 1, Len(seq))

\* a slice that takes nothing for a count below 1
SliceNothingBelowOne(seq, n) ==
    LET start == IF n > 0 THEN (IF Len(seq) > n THEN Len(seq) - n ELSE 0)
                 ELSE Len(seq)
    IN  SubSeq(seq, start + 1, Len(seq))

\* seq[-n:]
SliceLast(seq, n) ==
    LET start == IF n > 0 THEN (IF Len(seq) > n THEN Len(seq) - n ELSE 0)
                 ELSE (IF 0 - n < Len(seq) THEN 0 - n ELSE Len(seq))
    IN  SubSeq(seq, start + 1, Len(seq))

\* the reversal left out
NoReverse(seq) == seq

\* seq[::-1]
Reverse(seq) == [k \in 1..Len(seq) |-> seq[Len(seq) + 1 - k]]

\* the slice taken after the reversal: argsort()[::-1][-top_n:]
SliceAfterReverse(sims, ties, n) == SliceLast(Reverse(Argsort(sims, ties)), n)

\* cosine_similarities.argsort()[-top_n:][::-1]
RelatedDocsIndices(sims, ties, n) == Reverse(SliceLast(Argsort(sims, ties), n))

\* [corpus[i] for i in related_docs_indices]
RelatedDocs(docs, indices) == [k \in DOMAIN indices |-> docs[indices[k] + 1]]

\* the cosine similarities a call computes for query q
Similarities(q) == CosineSimilarity(Transform(vectorizer, q), vector_kb)

(***************************************************************************)
(* Inputs: the notebook's corpus and query, and small documents that give  *)
(* ties (a repeated document, a document with doubled counts), upper case, *)
(* punctuation, a document without tokens and terms outside the            *)
(* vocabulary.                                                             *)
(***************************************************************************)
sp == <<" ">>
w_the == <<"t","h","e">>
w_cat == <<"c","a","t">>
w_sat == <<"s","a","t">>
w_on == <<"o","n">>
w_mat == <<"m","a","t">>
w_dog == <<"d","o","g">>
w_chased == <<"c","h","a","s","e","d">>
w_and == <<"a","n","d">>
w_played == <<"p","l","a","y","e","d">>
w_together == <<"t","o","g","e","t","h","e","r">>
w_is == <<"i","s">>
w_sleeping == <<"s","l","e","e","p","i","n","g">>
w_barked == <<"b","a","r","k","e","d">>
w_loudly == <<"l","o","u","d","l","y">>
w_who == <<"w","h","o">>

NotebookCorpus ==
    << w_the \o sp \o w_cat \o sp \o w_sat \o sp \o w_on \o sp \o w_the \o sp \o w_mat,
       w_the \o sp \o w_dog \o sp \o w_chased \o sp \o w_the \o sp \o w_cat,
       w_the \o sp \o w_cat \o sp \o w_and \o sp \o w_dog \o sp \o w_played \o sp \o w_together,
       w_the \o sp \o w_cat \o sp \o w_is \o sp \o w_sleeping,
       w_the \o sp \o w_dog \o sp \o w_barked \o sp \o w_loudly >>

NotebookQuery == w_the \o sp \o w_dog \o sp \o w_chased \o sp \o w_who \o sp \o <<"?">>

DocAB == <<"a","a"," ","b","b">>
DocABAB == <<"a","a"," ","b","b"," ","a","a"," ","b","b">>
DocBC == <<"B","b",","," ","c","c">>
DocEmpty == <<>>
QueryOOV == <<"z","z">>
QueryMixed == <<"a","a"," ","z","z","?">>

DocPool == {DocAB, DocABAB, DocBC, DocEmpty}
QueryPool == {DocAB, DocABAB, DocBC, QueryOOV, QueryMixed}

\* the queries put to a fitted corpus
Queries == IF corpus = NotebookCorpus THEN {NotebookQuery} ELSE QueryPool

Corpora == UNION {[1..n -> DocPool] : n \in 0..MaxDocs} \cup {NotebookCorpus}
TopNs == 1..MaxTopN

\* def retrieve_documents(..., top_n=3)
DefaultTopN == 3

\* ndarray.argsort() defaults to kind="quicksort", which is not stable: equal
\* keys come out in ascending position order on the insertion-sort path taken
\* for short arrays, and in another order on builds that dispatch to a
\* sorting network.  Both orders of the tied positions are allowed.
Ascending(n) == [i \in 1..n |-> i]
Descending(n) == [i \in 1..n |-> n + 1 - i]
TieOrders(n) == {Ascending(n), Descending(n)}

\* a stable argsort leaves equal keys in ascending position order
StableTies == argsort_ties = Ascending(Len(corpus))

(***************************************************************************)
(* The state machine.                                                      *)
(***************************************************************************)
NoCall == [set |-> FALSE, between |-> FALSE, query |-> <<>>, top_n |-> 0,
           related_docs |-> <<>>]

\* the callers that may be inside retrieve_documents at one time, and the
\* frame of a caller that is not: the locals of lines 66-71, the line the
\* caller is at, and (observer) whether another caller was inside with it
Callers == 1..MaxCallers
IdleFrame == [pc |-> "idle", query |-> <<>>, top_n |-> 0, query_vector |-> <<>>,
              cosine_similarities |-> <<>>, related_docs_indices |-> <<>>,
              related_docs |-> <<>>, overlapped |-> FALSE]

\* DetailJob before forward is called: no line, no locals, nothing called or
\* printed
IdleJob == [pc |-> "idle", top_k |-> 0, top_k_omitted |-> FALSE,
            tech_skills |-> <<>>, i |-> 0, called |-> <<>>, printed |-> <<>>]

\* the UserProfile cells before any of them has run
NoUser == [op |-> "none", input |-> <<>>, profile |-> <<>>, user_json_str |-> <<>>,
           user_json_dict |-> <<>>, new_user |-> <<>>, error |-> {}]

Init ==
    /\ state = "unfitted"
    /\ error = "none"
    /\ corpus = <<>>
    /\ vectorizer = Unfitted
    /\ vector_kb = <<>>
    /\ argsort_ties = <<>>
    /\ called = FALSE
    /\ query = <<>>
    /\ top_n = 0
    /\ top_n_omitted = FALSE
    /\ related_docs_indices = <<>>
    /\ related_docs = <<>>
    /\ remembered = NoCall
    /\ call_error = "none"
    /\ frames = [c \in Callers |-> IdleFrame]
    /\ job = IdleJob
    /\ user = NoUser

\* fit_transform without the empty-vocabulary check
FitUnchecked(docs, ties) ==
    /\ state = "unfitted"
    /\ state' = "fitted"
    /\ corpus' = docs
    /\ vectorizer' = FitVectorizer(docs)
    /\ vector_kb' = FitTransform(docs)
    /\ argsort_ties' = ties
    /\ UNCHANGED <<error, called, query, top_n, top_n_omitted,
                   related_docs_indices, related_docs, remembered,
                   call_error, frames, job, user>>

\* vectorizer = TfidfVectorizer(); vector_kb = vectorizer.fit_transform(corpus)
Fit(docs, ties) ==
    /\ state = "unfitted"
    /\ Vocabulary(docs) # {}
    /\ state' = "fitted"
    /\ corpus' = docs
    /\ vectorizer' = FitVectorizer(docs)
    /\ vector_kb' = FitTransform(docs)
    /\ argsort_ties' = ties
    /\ UNCHANGED <<error, called, query, top_n, top_n_omitted,
                   related_docs_indices, related_docs, remembered,
                   call_error, frames, job, user>>

\* a failing fit_transform that leaves behind what it had computed
FitFailsLeavingMatrix(docs) ==
    /\ state = "unfitted"
    /\ Vocabulary(docs) = {}
    /\ state' = "failed"
    /\ error' = "ValueError"
    /\ corpus' = docs
    /\ vectorizer' = FitVectorizer(docs)
    /\ vector_kb' = FitTransform(docs)
    /\ UNCHANGED <<argsort_ties, called, query, top_n, top_n_omitted,
                   related_docs_indices, related_docs, remembered,
                   call_error, frames, job, user>>

\* fit_transform raises ValueError("empty vocabulary; ...") when no document
\* has a token: vector_kb is never bound and the vectorizer stays unfitted
FitFails(docs) ==
    /\ state = "unfitted"
    /\ Vocabulary(docs) = {}
    /\ state' = "failed"
    /\ error' = "ValueError"
    /\ corpus' = docs
    /\ UNCHANGED <<vectorizer, vector_kb, argsort_ties, called, query, top_n,
                   top_n_omitted, related_docs_indices, related_docs, remembered,
                   call_error, frames, job, user>>

\* a call that adds the query to the knowledge base and fits again
RetrieveAndRefit(q, n, omitted) ==
    LET indices == RelatedDocsIndices(Similarities(q), argsort_ties, n)
        docs == Append(corpus, q)
    IN  /\ state = "fitted"
        /\ called' = TRUE
        /\ query' = q
        /\ top_n' = n
        /\ top_n_omitted' = omitted
        /\ related_docs_indices' = indices
        /\ related_docs' = RelatedDocs(corpus, indices)
        /\ corpus' = docs
        /\ vectorizer' = FitVectorizer(docs)
        /\ vector_kb' = FitTransform(docs)
        /\ argsort_ties' = IF StableTies THEN Ascending(Len(docs))
                           ELSE Descending(Len(docs))
        /\ UNCHANGED <<state, error, call_error, frames, job, user>>

\* a call that uses the fitted state up
RetrieveConsuming(q, n, omitted) ==
    LET indices == RelatedDocsIndices(Similarities(q), argsort_ties, n)
    IN  /\ state = "fitted"
        /\ called' = TRUE
        /\ query' = q
        /\ top_n' = n
        /\ top_n_omitted' = omitted
        /\ related_docs_indices' = indices
        /\ related_docs' = RelatedDocs(corpus, indices)
        /\ state' = "unfitted"
        /\ vectorizer' = Unfitted
        /\ vector_kb' = <<>>
        /\ UNCHANGED <<error, corpus, argsort_ties, call_error, frames, job, user>>

\* the body of retrieve_documents(q, corpus, vectorizer, vector_kb, n)
RetrieveDocuments(q, n, omitted) ==
    LET indices == RelatedDocsIndices(Similarities(q), argsort_ties, n)
    IN  /\ state = "fitted"
        /\ called' = TRUE
        /\ query' = q
        /\ top_n' = n
        /\ top_n_omitted' = omitted
        /\ related_docs_indices' = indices
        /\ related_docs' = RelatedDocs(corpus, indices)
        /\ UNCHANGED <<fitted_vars, call_error, frames, job, user>>

\* retrieve_documents(q, corpus, vectorizer, kb=vector_kb, top_n=n)
Retrieve(q, n) == RetrieveDocuments(q, n, FALSE) /\ UNCHANGED remembered

\* retrieve_documents(q, corpus, vectorizer, kb=vector_kb)
RetrieveDefault(q) == RetrieveDocuments(q, DefaultTopN, TRUE) /\ UNCHANGED remembered

Next ==
    \/ \E docs \in Corpora : \E ties \in TieOrders(Len(docs)) : Fit(docs, ties)
    \/ \E docs \in Corpora : FitFails(docs)
    \/ \E q \in Queries, n \in TopNs : Retrieve(q, n)
    \/ \E q \in Queries : RetrieveDefault(q)

Spec == Init /\ [][Next]_vars

(***************************************************************************)
(* Repeated calls: one call is remembered with its result, any calls       *)
(* follow, and the remembered call is made again.                          *)
(***************************************************************************)
RepeatDocs == 2

RepeatCorpora == UNION {[1..n -> DocPool] : n \in 1..RepeatDocs}
RepeatQueries == {DocAB, DocBC, QueryOOV}

\* a call made before the remembered one
RetrieveEarlier(q, n) == ~remembered.set /\ Retrieve(q, n)

\* the call that is remembered
RetrieveObserved(q, n) ==
    /\ ~remembered.set
    /\ RetrieveDocuments(q, n, FALSE)
    /\ remembered' = [set |-> TRUE, between |-> FALSE, query |-> q, top_n |-> n,
                      related_docs |-> related_docs']

\* a call made after the remembered one
RetrieveLater(q, n) ==
    /\ remembered.set
    /\ RetrieveDocuments(q, n, FALSE)
    /\ remembered' = [remembered EXCEPT !.between =
                         @ \/ q # remembered.query \/ n # remembered.top_n]

NextRepeat ==
    \/ \E docs \in RepeatCorpora : \E ties \in TieOrders(Len(docs)) : Fit(docs, ties)
    \/ \E q \in RepeatQueries, n \in TopNs : RetrieveEarlier(q, n)
    \/ \E q \in RepeatQueries, n \in TopNs : RetrieveObserved(q, n)
    \/ \E q \in RepeatQueries, n \in TopNs : RetrieveLater(q, n)

SpecRepeat == Init /\ [][NextRepeat]_vars

(***************************************************************************)
(* Fitting alone: every corpus is fitted, or fails to fit, and the matrix  *)
(* is looked at.                                                           *)
(***************************************************************************)
NextFit ==
    \/ \E docs \in Corpora : \E ties \in TieOrders(Len(docs)) : Fit(docs, ties)
    \/ \E docs \in Corpora : FitFails(docs)

SpecFit == Init /\ [][NextFit]_vars

(***************************************************************************)
(* The lifecycle: calls made before fit_transform, after a fit_transform   *)
(* that raised, and after one that succeeded, over corpora with documents  *)
(* that have no token.                                                     *)
(***************************************************************************)
LifecycleDocs == 2

\* a document whose only word has one character: no token
DocNoTokens == <<"a", "?">>

LifecycleCorpora ==
    UNION {[1..n -> {DocAB, DocBC, DocEmpty, DocNoTokens}] : n \in 0..LifecycleDocs}
LifecycleQueries == {DocAB, QueryOOV}

\* a call made without a fitted state raises and returns nothing: the names
\* vectorizer and vector_kb are unbound before line 55 (NameError), and after
\* a fit_transform that raised vector_kb is still unbound, while a call that
\* is given some other kb reaches line 67, where transform() raises
\* NotFittedError on the vectorizer without vocabulary_
RetrieveFails(q, n, kb_bound) ==
    /\ state # "fitted"
    /\ call_error' = IF state = "failed" /\ kb_bound THEN "NotFittedError"
                     ELSE "NameError"
    /\ UNCHANGED <<fitted_vars, called, query, top_n, top_n_omitted,
                   related_docs_indices, related_docs, remembered, frames, job, user>>

NextLifecycle ==
    \/ \E docs \in LifecycleCorpora : \E ties \in TieOrders(Len(docs)) : Fit(docs, ties)
    \/ \E docs \in LifecycleCorpora : FitFails(docs)
    \/ \E q \in LifecycleQueries, n \in TopNs : Retrieve(q, n)
    \/ \E q \in LifecycleQueries : RetrieveDefault(q)
    \/ \E q \in LifecycleQueries, n \in TopNs, kb_bound \in BOOLEAN :
           RetrieveFails(q, n, kb_bound)

SpecLifecycle == Init /\ [][NextLifecycle]_vars

(***************************************************************************)
(* Variants of one query: a call is remembered with its result and calls   *)
(* with other spellings of the query follow (other letter case, other      *)
(* separators, an underscore between the words, added unknown words).      *)
(***************************************************************************)
QueryABCase == <<"A","a"," ","B","b">>
QueryABPunct == <<"a","a",",","-","b","b","!">>
QueryABUnderscore == <<"a","a","_","b","b">>
QueryABUnknown == <<"z","z"," ","a","a"," ","b","b"," ","q","q">>

VariantCorpora == {<<DocAB, DocBC>>, <<DocBC, DocAB, DocABAB>>}
VariantQueries == {DocAB, QueryABCase, QueryABPunct, QueryABUnderscore, QueryABUnknown}

NextVariants ==
    \/ \E docs \in VariantCorpora : \E ties \in TieOrders(Len(docs)) : Fit(docs, ties)
    \/ \E q \in VariantQueries, n \in TopNs : RetrieveObserved(q, n)
    \/ \E q \in VariantQueries, n \in TopNs : RetrieveLater(q, n)

SpecVariants == Init /\ [][NextVariants]_vars

(***************************************************************************)
(* Calls with top_n = 0 and with a negative top_n, which the function      *)
(* passes to the slice [-top_n:] as they are.                              *)
(***************************************************************************)
NonPositiveCorpora == UNION {[1..n -> {DocAB, DocABAB, DocBC}] : n \in 1..MaxDocs}
NonPositiveTopNs == {0 - k : k \in 0..MaxNegated}

NextNonPositive ==
    \/ \E docs \in NonPositiveCorpora : \E ties \in TieOrders(Len(docs)) : Fit(docs, ties)
    \/ \E q \in RepeatQueries, n \in NonPositiveTopNs : Retrieve(q, n)

SpecNonPositive == Init /\ [][NextNonPositive]_vars

(***************************************************************************)
(* Concurrent calls: every caller runs lines 67-71 one line at a time on   *)
(* its own frame, and the lines of different callers interleave freely.    *)
(* The fitted state is the one thing the callers share.                    *)
(***************************************************************************)
ConcurrentCorpora == {<<DocAB, DocBC>>, <<DocAB, DocABAB, DocBC>>}
ConcurrentQueries == {DocAB, DocBC}
ConcurrentTopNs == {1, 2}

InFlight(c) == frames[c].pc \notin {"idle", "returned"}

call_vars == <<called, query, top_n, top_n_omitted, related_docs_indices,
               related_docs, remembered, call_error>>

\* caller c enters retrieve_documents(q, corpus, vectorizer, vector_kb, n)
Enter(c, q, n) ==
    LET together == \E d \in Callers \ {c} : InFlight(d)
    IN  /\ state = "fitted"
        /\ ~InFlight(c)
        /\ frames' = [d \in Callers |->
                         IF d = c
                         THEN [IdleFrame EXCEPT !.pc = "l67", !.query = q, !.top_n = n,
                                                !.overlapped = together]
                         ELSE IF InFlight(d)
                         THEN [frames[d] EXCEPT !.overlapped = TRUE]
                         ELSE frames[d]]
        /\ UNCHANGED <<fitted_vars, call_vars, job, user>>

\* one query vector shared by the callers: line 67 stores it in every frame
\* that is inside the function
TransformShared(c) ==
    LET qv == Transform(vectorizer, frames[c].query)
    IN  /\ frames[c].pc = "l67"
        /\ frames' = [d \in Callers |->
                         IF d = c
                         THEN [frames[d] EXCEPT !.pc = "l68", !.query_vector = qv]
                         ELSE IF frames[d].pc = "l68"
                         THEN [frames[d] EXCEPT !.query_vector = qv]
                         ELSE frames[d]]
        /\ UNCHANGED <<fitted_vars, call_vars, job, user>>

\* query_vector = vectorizer.transform([query])
Line67(c) ==
    /\ frames[c].pc = "l67"
    /\ frames' = [frames EXCEPT ![c].pc = "l68",
                                ![c].query_vector = Transform(vectorizer, frames[c].query)]
    /\ UNCHANGED <<fitted_vars, call_vars, job, user>>

\* cosine_similarities = cosine_similarity(query_vector, kb).flatten()
Line68(c) ==
    /\ frames[c].pc = "l68"
    /\ frames' = [frames EXCEPT ![c].pc = "l69",
                                ![c].cosine_similarities =
                                    CosineSimilarity(frames[c].query_vector, vector_kb)]
    /\ UNCHANGED <<fitted_vars, call_vars, job, user>>

\* related_docs_indices = cosine_similarities.argsort()[-top_n:][::-1]
Line69(c) ==
    /\ frames[c].pc = "l69"
    /\ frames' = [frames EXCEPT ![c].pc = "l70",
                                ![c].related_docs_indices =
                                    RelatedDocsIndices(frames[c].cosine_similarities,
                                                       argsort_ties, frames[c].top_n)]
    /\ UNCHANGED <<fitted_vars, call_vars, job, user>>

\* related_docs = [corpus[i] for i in related_docs_indices]
Line70(c) ==
    /\ frames[c].pc = "l70"
    /\ frames' = [frames EXCEPT ![c].pc = "l71",
                                ![c].related_docs =
                                    RelatedDocs(corpus, frames[c].related_docs_indices)]
    /\ UNCHANGED <<fitted_vars, call_vars, job, user>>

\* return related_docs
Line71(c) ==
    /\ frames[c].pc = "l71"
    /\ frames' = [frames EXCEPT ![c].pc = "returned"]
    /\ UNCHANGED <<fitted_vars, call_vars, job, user>>

NextConcurrent ==
    \/ \E docs \in ConcurrentCorpora : \E ties \in TieOrders(Len(docs)) : Fit(docs, ties)
    \/ \E c \in Callers, q \in ConcurrentQueries, n \in ConcurrentTopNs : Enter(c, q, n)
    \/ \E c \in Callers : Line67(c)
    \/ \E c \in Callers : Line68(c)
    \/ \E c \in Callers : Line69(c)
    \/ \E c \in Callers : Line70(c)
    \/ \E c \in Callers : Line71(c)

SpecConcurrent == Init /\ [][NextConcurrent]_vars


(***************************************************************************)
(* DetailJob.forward: one call of the skill identifier, then a loop over   *)
(* the skills it returned with one skill-summary call each, left by the    *)
(* break when the index reaches top_k - 1.  What the two language-model    *)
(* predictors return is an input: the identifier returns any list of       *)
(* skills, the notebook's recorded list among them.                        *)
(***************************************************************************)
\* def forward(self, job_description, top_k=3)
DefaultTopK == 3

Skills == {"Python", "SQL"}

\* the list printed by the notebook's run of job_detail
NotebookSkills ==
    <<"Prompt Engineering", "Model Fine-Tuning", "Custom Model Training", "MLOps",
      "LLM Development", "Computer Vision", "Benchmarking and Evaluation",
      "TypeScript">>

SkillLists == UNION {[1..n -> Skills] : n \in 0..MaxSkills} \cup {NotebookSkills}
TopKs == (0 - MaxNegated)..MaxTopK

\* job_detail(job_description=description, top_k=k), or without top_k
JobDetail(k, omitted) ==
    /\ job.pc \in {"idle", "done"}
    /\ job' = [IdleJob EXCEPT !.pc = "l472", !.top_k = k, !.top_k_omitted = omitted]
    /\ UNCHANGED <<retriever_vars, user>>

\* skills_resp = self.skill_identifier(job_description=job_description)
\* print(f"## IDENTIFIED SKILLS: {skills_resp.tech_skills}")
Identify(skills) ==
    /\ job.pc = "l472"
    /\ job' = [job EXCEPT !.pc = "l474",
                          !.tech_skills = skills,
                          !.i = 0,
                          !.called = Append(@, [predictor |-> "skill_identifier",
                                                tech_skill |-> ""]),
                          !.printed = Append(@, [line |-> "IDENTIFIED SKILLS",
                                                 tech_skill |-> ""])]
    /\ UNCHANGED <<retriever_vars, user>>

\* for i, item in enumerate(skills_resp.tech_skills): the next item, or the
\* end of the list
ForNext ==
    /\ job.pc = "l474"
    /\ job' = [job EXCEPT !.pc = IF job.i < Len(job.tech_skills) THEN "l475"
                                 ELSE "done"]
    /\ UNCHANGED <<retriever_vars, user>>

\* details_resp = self.skill_summary(tech_skill=item) and the prints of the
\* skill, its summary and its project ideas
Summarise ==
    LET item == job.tech_skills[job.i + 1]
    IN  /\ job.pc = "l475"
        /\ job' = [job EXCEPT !.pc = "l485",
                              !.called = Append(@, [predictor |-> "skill_summary",
                                                    tech_skill |-> item]),
                              !.printed = Append(@, [line |-> "SKILL",
                                                     tech_skill |-> item])]
        /\ UNCHANGED <<retriever_vars, user>>

\* a stop test that lets one skill more through: if i == top_k
StopTestOffByOne ==
    /\ job.pc = "l485"
    /\ job' = IF job.i = job.top_k
              THEN [job EXCEPT !.pc = "done"]
              ELSE [job EXCEPT !.pc = "l474", !.i = @ + 1]
    /\ UNCHANGED <<retriever_vars, user>>

\* a stop test by comparison: if i >= top_k - 1
StopTestAtOrBeyond ==
    /\ job.pc = "l485"
    /\ job' = IF job.i >= job.top_k - 1
              THEN [job EXCEPT !.pc = "done"]
              ELSE [job EXCEPT !.pc = "l474", !.i = @ + 1]
    /\ UNCHANGED <<retriever_vars, user>>

\* if i == top_k - 1: break
StopTest ==
    /\ job.pc = "l485"
    /\ job' = IF job.i = job.top_k - 1
              THEN [job EXCEPT !.pc = "done"]
              ELSE [job EXCEPT !.pc = "l474", !.i = @ + 1]
    /\ UNCHANGED <<retriever_vars, user>>

NextDetailJob ==
    \/ \E k \in TopKs : JobDetail(k, FALSE)
    \/ JobDetail(DefaultTopK, TRUE)
    \/ \E skills \in SkillLists : Identify(skills)
    \/ ForNext
    \/ Summarise
    \/ StopTest

SpecDetailJob == Init /\ [][NextDetailJob]_vars

\* forward is sequential code: once called, each of its lines is executed
FairDetailJob ==
    /\ WF_vars(\E skills \in SkillLists : Identify(skills))
    /\ WF_vars(ForNext)
    /\ WF_vars(Summarise)
    /\ WF_vars(StopTest)

SpecDetailJobFair == SpecDetailJob /\ FairDetailJob

(***************************************************************************)
(* UserProfile: validation of the fields, the two dumps and the two ways   *)
(* back.  A profile is a record of validated field values; None is the     *)
(* empty sequence and a present optional value a one-element sequence.     *)
(* email, active and user_category are taken from valid values and kept    *)
(* as they are; username, id and age are checked against their             *)
(* constraints, dates and URLs are converted as the library converts       *)
(* them.  An error is a set of (field, error type) pairs, as one           *)
(* ValidationError lists them.                                             *)
(***************************************************************************)
\* username: min_length=5, max_length=20
UsernameMinLength == 5
UsernameMaxLength == 20
\* id: lt=1000
IdLimit == 1000
\* age: ge=12, le=99; legal_age: age >= 18
AgeMin == 12
AgeMax == 99
LegalAge == 18

\* str.upper() on one character: a sequence, because the upper case of the
\* sharp s is two characters
UpperOf == [i \in DOMAIN Lowercase |-> Uppercase[i]]
LowerIndex == [c \in Range(Lowercase) |-> CHOOSE i \in DOMAIN Lowercase : Lowercase[i] = c]
UpperChar(c) ==
    IF c \in DOMAIN LowerIndex THEN <<UpperOf[LowerIndex[c]]>>
    ELSE IF c = "ß" THEN <<"S", "S">>
    ELSE <<c>>

RECURSIVE Upper(_)
Upper(str) == IF str = <<>> THEN <<>> ELSE UpperChar(Head(str)) \o Upper(Tail(str))

\* decimal digits of n, most significant first, zero-padded to width
DigitChar == <<"0","1","2","3","4","5","6","7","8","9">>
RECURSIVE Padded(_, _)
Padded(n, width) ==
    IF width = 0 THEN <<>>
    ELSE Append(Padded(n \div 10, width - 1), DigitChar[(n % 10) + 1])

\* int() of a string of decimal digits
DigitValue == [c \in Range(DigitChar) |-> (CHOOSE i \in DOMAIN DigitChar : DigitChar[i] = c) - 1]
RECURSIVE Number(_)
Number(str) ==
    IF str = <<>> THEN 0
    ELSE 10 * Number(SubSeq(str, 1, Len(str) - 1)) + DigitValue[str[Len(str)]]

\* date.isoformat(): YYYY-MM-DD, and its parse
IsoDate(d) == Padded(d.year, 4) \o <<"-">> \o Padded(d.month, 2) \o <<"-">> \o Padded(d.day, 2)
ParseDate(str) ==
    [year |-> Number(SubSeq(str, 1, 4)), month |-> Number(SubSeq(str, 6, 7)),
     day |-> Number(SubSeq(str, 9, 10))]

\* datetime.isoformat(): YYYY-MM-DDTHH:MM:SS, and its parse
IsoDateTime(t) ==
    IsoDate(t) \o <<"T">> \o Padded(t.hour, 2) \o <<":">> \o Padded(t.minute, 2)
        \o <<":">> \o Padded(t.second, 2)
ParseDateTime(str) ==
    [year |-> Number(SubSeq(str, 1, 4)), month |-> Number(SubSeq(str, 6, 7)),
     day |-> Number(SubSeq(str, 9, 10)), hour |-> Number(SubSeq(str, 12, 13)),
     minute |-> Number(SubSeq(str, 15, 16)), second |-> Number(SubSeq(str, 18, 19))]

\* AnyUrl: a URL without a path gets the path "/"
SchemeEnd(url) == CHOOSE i \in 1..Len(url) : url[i] = ":" /\ url[i + 1] = "/" /\ url[i + 2] = "/"
HasPath(url) == \E i \in (SchemeEnd(url) + 3)..Len(url) : url[i] = "/"
NormalizeUrl(url) == IF HasPath(url) THEN url ELSE Append(url, "/")

\* the checks of one field: the set of errors it adds to the ValidationError
UsernameErrors(username) ==
    IF Len(username) < UsernameMinLength THEN {[loc |-> "username", type |-> "string_too_short"]}
    ELSE IF Len(username) > UsernameMaxLength THEN {[loc |-> "username", type |-> "string_too_long"]}
    ELSE {}

AgeErrors(age) ==
    IF age < AgeMin THEN {[loc |-> "age", type |-> "greater_than_equal"]}
    ELSE IF age > AgeMax THEN {[loc |-> "age", type |-> "less_than_equal"]}
    ELSE {}

\* a validator that lets the id 0 through: if value < 0
ValidateIdAllowingZero(value) ==
    IF value < 0 THEN {[loc |-> "id", type |-> "value_error"]} ELSE {}

\* validate_id: if value <= 0: raise ValueError(...)
ValidateId(value) ==
    IF value <= 0 THEN {[loc |-> "id", type |-> "value_error"]} ELSE {}

\* id: int = Field(lt=1000), then the field validator on the value that passed
IdErrors(id) ==
    IF ~(id < IdLimit) THEN {[loc |-> "id", type |-> "less_than"]}
    ELSE ValidateId(id)

\* legal_age
ComputedLegalAge(age) == IF age >= LegalAge THEN TRUE ELSE FALSE

\* validation of the field values of a dict or of keyword arguments: the
\* errors, and the profile that is built when there are none
ValidationErrors(data) ==
    UsernameErrors(data.username) \cup IdErrors(data.id) \cup AgeErrors(data.age)

Validated(data) ==
    [username |-> data.username,
     email |-> data.email,
     id |-> data.id,
     age |-> data.age,
     active |-> data.active,
     website |-> [k \in DOMAIN data.website |-> NormalizeUrl(data.website[k])],
     join_date |-> data.join_date,
     last_login |-> data.last_login,
     user_category |-> data.user_category,
     legal_age |-> ComputedLegalAge(data.age)]

\* serialize_username: return username.upper()
SerializeUsername(username) == Upper(username)

\* model_dump(): the field values as they are, the computed field included;
\* the username serializer is for JSON only
ModelDump(profile) == profile

\* model_dump_json(): the username through its serializer, dates in ISO
\* format, the URL as its string
ModelDumpJson(profile) ==
    [profile EXCEPT !.username = SerializeUsername(@),
                    !.join_date = IsoDate(@),
                    !.last_login = [k \in DOMAIN @ |-> IsoDateTime(@[k])]]

\* the field values read from a JSON document: dates parsed from ISO format
FromJson(doc) ==
    [doc EXCEPT !.join_date = ParseDate(@),
                !.last_login = [k \in DOMAIN @ |-> ParseDateTime(@[k])]]

\* the inputs of the cells
str_johnsmith == <<"j","o","h","n","s","m","i","t","h">>
str_lucas == <<"l","u","c","a","s">>
str_JohnSmith == <<"J","o","h","n","S","m","i","t","h">>
str_strasse == <<"s","t","r","a","ß","e">>
str_luca == <<"l","u","c","a">>
str_a19 == [i \in 1..19 |-> "a"]
str_a19_sharp_s == Append(str_a19, "ß")
str_a21 == str_a19 \o <<"a", "a">>
str_website == <<"h","t","t","p","s",":","/","/","m","y","w","e","b","s","i","t","e",
                 ".","c","o","m">>

NotebookUserData ==
    [username |-> str_johnsmith,
     email |-> "john@mail.com",
     id |-> 123,
     age |-> 30,
     active |-> FALSE,
     website |-> <<str_website>>,
     join_date |-> [year |-> 2025, month |-> 7, day |-> 26],
     last_login |-> <<[year |-> 2025, month |-> 7, day |-> 26,
                       hour |-> 10, minute |-> 0, second |-> 0]>>,
     user_category |-> "free"]

Usernames == {str_johnsmith, str_lucas, str_JohnSmith, str_strasse, str_luca,
              str_a19_sharp_s, str_a21}
Ids == {0 - 1, 0, 1, 123, 999, 1000, 1001}
Ages == {11, 12, 30, 99, 100}

UserData ==
    [username : Usernames,
     email : {"john@mail.com"},
     id : Ids,
     age : Ages,
     active : BOOLEAN,
     website : {<<>>, <<str_website>>},
     join_date : {NotebookUserData.join_date},
     last_login : {<<>>, NotebookUserData.last_login},
     user_category : {"free", "premium"}]

\* user = UserProfile(**user_data): the profile, or a ValidationError and
\* no object
NewUser(data) ==
    LET errors == ValidationErrors(data)
    IN  /\ user.op = "none"
        /\ user' = [user EXCEPT !.op = "UserProfile",
                                !.input = data,
                                !.profile = IF errors = {} THEN <<Validated(data)>>
                                            ELSE <<>>,
                                !.error = errors]
        /\ UNCHANGED <<retriever_vars, job>>

\* user_json_str = user.model_dump_json(); user_json_dict = user.model_dump()
Dump ==
    /\ user.profile # <<>>
    /\ user.user_json_str = <<>>
    /\ user' = [user EXCEPT !.op = "model_dump",
                            !.user_json_str = <<ModelDumpJson(user.profile[1])>>,
                            !.user_json_dict = <<ModelDump(user.profile[1])>>,
                            !.error = {}]
    /\ UNCHANGED <<retriever_vars, job>>

\* new_user = UserProfile.model_validate_json(user_json_str)
ModelValidateJson ==
    LET data == FromJson(user.user_json_str[1])
        errors == ValidationErrors(data)
    IN  /\ user.user_json_str # <<>>
        /\ user' = [user EXCEPT !.op = "model_validate_json",
                                !.new_user = IF errors = {} THEN <<Validated(data)>>
                                             ELSE @,
                                !.error = errors]
        /\ UNCHANGED <<retriever_vars, job>>

\* new_user = UserProfile.model_validate(user_json_dict)
ModelValidate ==
    LET data == user.user_json_dict[1]
        errors == ValidationErrors(data)
    IN  /\ user.user_json_dict # <<>>
        /\ user' = [user EXCEPT !.op = "model_validate",
                                !.new_user = IF errors = {} THEN <<Validated(data)>>
                                             ELSE @,
                                !.error = errors]
        /\ UNCHANGED <<retriever_vars, job>>

NextUserProfile ==
    \/ \E data \in UserData : NewUser(data)
    \/ Dump
    \/ ModelValidateJson
    \/ ModelValidate

SpecUserProfile == Init /\ [][NextUserProfile]_vars

(***************************************************************************)
(* Properties of the last call.                                            *)
(***************************************************************************)
NDocs == Len(corpus)
Min(a, b) == IF a < b THEN a ELSE b

\* the similarities of the last call's query, one per document position
LastSims == Similarities(query)

\* document position i (1-based) is in the last result / its rank there
Returned(i) == \E k \in DOMAIN related_docs_indices : related_docs_indices[k] = i - 1
RankOf(i) == CHOOSE k \in DOMAIN related_docs_indices : related_docs_indices[k] = i - 1

\* the query has at least one term of the fitted vocabulary
HasVocabularyTerm(q) == Range(Tokenize(q)) \cap vectorizer.vocabulary_ # {}

\* C1: the result of every call with a positive top_n is ordered by
\* non-increasing cosine similarity to the query, no document left out has a
\* strictly higher similarity than a returned one, and the elements returned
\* are the corpus strings at the ranked positions, not the positions.
C1_RankedBySimilarity ==
    called =>
        /\ \A k \in DOMAIN related_docs_indices :
               related_docs_indices[k] \in 0..(NDocs - 1)
        /\ \A k \in 1..(Len(related_docs_indices) - 1) :
               ~SimLess(LastSims[related_docs_indices[k] + 1],
                        LastSims[related_docs_indices[k + 1] + 1])
        /\ \A i \in 1..NDocs : ~Returned(i) =>
               \A k \in DOMAIN related_docs_indices :
                   ~SimLess(LastSims[related_docs_indices[k] + 1], LastSims[i])
        /\ Len(related_docs) = Len(related_docs_indices)
        /\ \A k \in DOMAIN related_docs :
               related_docs[k] = corpus[related_docs_indices[k] + 1]

\* a call over three documents that returns two of them, the first strictly
\* more similar than the second and the second strictly more than the one left out
C1_Witness ==
    /\ called /\ NDocs = 3 /\ top_n = 2 /\ Len(related_docs) = 2
    /\ SimLess(LastSims[related_docs_indices[2] + 1], LastSims[related_docs_indices[1] + 1])
    /\ \E i \in 1..NDocs :
           ~Returned(i) /\ SimLess(LastSims[i], LastSims[related_docs_indices[2] + 1])

\* C2: with the notebook's five-document corpus, the query "the dog chased
\* who ?" and top_n = 3, the call returns "the dog chased the cat", "the dog
\* barked loudly", "the cat and dog played together", in that order.
C2_NotebookScenario ==
    (called /\ corpus = NotebookCorpus /\ query = NotebookQuery /\ top_n = 3) =>
        related_docs = <<NotebookCorpus[2], NotebookCorpus[5], NotebookCorpus[3]>>

C2_Witness ==
    called /\ corpus = NotebookCorpus /\ query = NotebookQuery /\ top_n = 3

\* two document positions whose similarities to the last query are exactly equal
Tied(i, j) == i # j /\ SimEqual(LastSims[i], LastSims[j])

\* C3 as stated: of two documents with exactly equal similarity the one with
\* the lower corpus index comes first, and it is the one returned when only
\* one of them fits inside top_n.
C3_LowerIndexFirst ==
    called =>
        \A i, j \in 1..NDocs : (i < j /\ Tied(i, j)) =>
            /\ Returned(j) => Returned(i)
            /\ (Returned(i) /\ Returned(j)) => RankOf(i) < RankOf(j)

\* C3 amended: two documents with exactly equal similarity come in the
\* reverse of the order argsort leaves them in, and the one argsort puts last
\* is the one returned when only one fits; under a stable argsort that is the
\* document with the HIGHER corpus index.
C3_TiesInReverseArgsortOrder ==
    called =>
        /\ \A i, j \in 1..NDocs : (Tied(i, j) /\ argsort_ties[i] < argsort_ties[j]) =>
               /\ Returned(i) => Returned(j)
               /\ (Returned(i) /\ Returned(j)) => RankOf(j) < RankOf(i)
        /\ StableTies =>
               \A i, j \in 1..NDocs : (i < j /\ Tied(i, j)) =>
                   /\ Returned(i) => Returned(j)
                   /\ (Returned(i) /\ Returned(j)) => RankOf(j) < RankOf(i)

\* under a stable argsort, two documents tie with a similarity above 0 and
\* only the higher-indexed one is returned
C3_Witness ==
    /\ called /\ StableTies /\ top_n = 1
    /\ \E i, j \in 1..NDocs :
           /\ i < j /\ Tied(i, j) /\ LastSims[i].dot > 0
           /\ Returned(j) /\ ~Returned(i)

\* C4: a query without any vocabulary term gets the empty sequence: no error
\* and no document, for every top_n.  retrieve_documents has no branch for
\* such a query: the similarities are all 0 and the slice still takes the
\* last top_n positions, so the code returns min(top_n, N) documents.
C4_EmptyForUnknownQuery ==
    (called /\ ~HasVocabularyTerm(query)) =>
        /\ error = "none"
        /\ related_docs = <<>>

\* C5: fit on a corpus of zero documents fails (fit_transform raises
\* ValueError for the empty vocabulary) and produces no fitted state: no
\* vocabulary, no matrix.
C5_EmptyCorpusFails ==
    (state # "unfitted" /\ corpus = <<>>) =>
        /\ state = "failed"
        /\ error = "ValueError"
        /\ vectorizer = Unfitted
        /\ vector_kb = <<>>

C5_Witness == state = "failed" /\ corpus = <<>> /\ error = "ValueError"

\* C6: a call with top_n = N on a corpus of N >= 1 documents returns every
\* document position 0..N-1 exactly once, so a repeated document string comes
\* back as many times as it occurs in the corpus.
C6_FullPermutation ==
    (called /\ top_n = NDocs) =>
        /\ Len(related_docs_indices) = NDocs
        /\ Range(related_docs_indices) = 0..(NDocs - 1)
        /\ \A d \in Range(corpus) :
               Cardinality({k \in DOMAIN related_docs : related_docs[k] = d})
                   = Cardinality({i \in DOMAIN corpus : corpus[i] = d})

\* three documents, two of them the same string, all returned
C6_Witness ==
    /\ called /\ NDocs = 3 /\ top_n = 3
    /\ \E i, j \in 1..NDocs : i # j /\ corpus[i] = corpus[j]
    /\ Len(related_docs) = 3

\* C7: a call returns exactly min(top_n, N) documents, a top_n above N giving
\* all N without repetition, and a call that leaves top_n out returns what
\* top_n = 3 returns.
C7_LengthIsMinTopN ==
    called =>
        /\ top_n >= 1
        /\ Len(related_docs) = Min(top_n, NDocs)
        /\ Cardinality(Range(related_docs_indices)) = Len(related_docs_indices)
        /\ top_n_omitted =>
               /\ top_n = 3
               /\ related_docs_indices = RelatedDocsIndices(LastSims, argsort_ties, 3)

\* a call without top_n on a corpus of fewer than three documents
C7_Witness ==
    /\ called /\ top_n_omitted /\ NDocs = 2 /\ Len(related_docs) = 2

\* the last call asked for one document with a corpus document as the query
SelfQuery(i) ==
    /\ called /\ top_n = 1 /\ i \in 1..NDocs
    /\ corpus[i] = query /\ HasVocabularyTerm(query)

\* C8 as stated: a query equal to a corpus document with a vocabulary term
\* and top_n = 1 returns that document.
C8_SelfQueryReturnsItself ==
    \A i \in 1..NDocs : SelfQuery(i) => related_docs = <<query>>

\* C8 amended: such a call returns a document whose similarity to the query
\* equals the queried document's own, which no document exceeds; it is the
\* queried document itself unless another document ties with it (one whose
\* term counts are proportional to its own).
C8_SelfQueryReturnsAMaximum ==
    \A i \in 1..NDocs : SelfQuery(i) =>
        /\ Len(related_docs) = 1
        /\ \A j \in 1..NDocs : ~SimLess(LastSims[i], LastSims[j])
        /\ SimEqual(LastSims[related_docs_indices[1] + 1], LastSims[i])
        /\ (\A j \in 1..NDocs : Tied(i, j) => corpus[j] = query) =>
               related_docs = <<query>>

\* the query is a corpus document and another document is returned
C8_Witness ==
    \E i \in 1..NDocs : SelfQuery(i) /\ related_docs # <<query>>

\* C9: a call with the query and top_n of an earlier call on the same fitted
\* state returns the earlier call's result, whatever calls came in between.
C9_RepeatedCallSameResult ==
    (remembered.set /\ query = remembered.query /\ top_n = remembered.top_n) =>
        related_docs = remembered.related_docs

\* the remembered call made again after a different call, with a result
C9_Witness ==
    /\ remembered.set /\ remembered.between
    /\ query = remembered.query /\ top_n = remembered.top_n
    /\ NDocs = 2 /\ related_docs # <<>>

\* C10: once fitted, the corpus, the vocabulary with its idf and the
\* term-weight matrix are what fit produced from the corpus and no call
\* changes them; nothing of a call's query is kept in them.
C10_FittedStateReadOnly ==
    /\ [](state = "fitted" =>
            /\ vectorizer = FitVectorizer(corpus)
            /\ vector_kb = FitTransform(corpus))
    /\ [][state = "fitted" =>
            /\ state' = "fitted"
            /\ corpus' = corpus
            /\ vectorizer' = vectorizer
            /\ vector_kb' = vector_kb]_vars

\* a call has returned whose query had a term outside the vocabulary
C10_Witness ==
    /\ called /\ state = "fitted"
    /\ Range(Tokenize(query)) \ vectorizer.vocabulary_ # {}
    /\ vectorizer = FitVectorizer(corpus)

\* what retrieve_documents(q, corpus, vectorizer, vector_kb, n) returns when
\* it runs alone
Alone(q, n) == RelatedDocs(corpus, RelatedDocsIndices(Similarities(q), argsort_ties, n))

\* C11: under every interleaving of the lines of concurrent calls on one
\* fitted state, a call that has returned has returned what the same call
\* returns when run alone, the locals it holds on the way are its own
\* query's, and no line changes the fitted state.
C11_ConcurrentCallsAsAlone ==
    /\ \A c \in Callers :
           /\ frames[c].pc = "returned" =>
                  frames[c].related_docs = Alone(frames[c].query, frames[c].top_n)
           /\ frames[c].pc \in {"l68", "l69", "l70", "l71"} =>
                  frames[c].query_vector = Transform(vectorizer, frames[c].query)
    /\ (\E c \in Callers : frames[c].pc # "idle") =>
           /\ state = "fitted"
           /\ vectorizer = FitVectorizer(corpus)
           /\ vector_kb = FitTransform(corpus)

\* two callers were inside the function together with different queries and
\* both have returned, with different results
C11_Witness ==
    \E c, d \in Callers :
        /\ c # d
        /\ frames[c].pc = "returned" /\ frames[d].pc = "returned"
        /\ frames[c].overlapped /\ frames[d].overlapped
        /\ frames[c].query # frames[d].query
        /\ frames[c].related_docs # frames[d].related_docs
        /\ frames[c].related_docs # <<>>

\* C12: the retriever changes between not fitted and fitted in one way only,
\* from unfitted to fitted by a fit_transform that did not raise; once fitted
\* it stays fitted, and every call that returns a result returns the ranking
\* computed from that fitted state and leaves it as it was.
C12_OneTransition ==
    /\ [][(state' = "fitted") # (state = "fitted") =>
            /\ state = "unfitted" /\ state' = "fitted"
            /\ error' = "none"
            /\ vectorizer' = FitVectorizer(corpus')
            /\ vector_kb' = FitTransform(corpus')]_vars
    /\ [][<<called, query, top_n, top_n_omitted, related_docs>>'
             # <<called, query, top_n, top_n_omitted, related_docs>> =>
            /\ state = "fitted" /\ state' = "fitted"
            /\ called'
            /\ corpus' = corpus /\ vectorizer' = vectorizer /\ vector_kb' = vector_kb
            /\ related_docs' =
                   RelatedDocs(corpus,
                               RelatedDocsIndices(
                                   CosineSimilarity(Transform(vectorizer, query'), vector_kb),
                                   argsort_ties, top_n'))]_vars

\* a call raised before the fit, the fit succeeded, and a later call was answered
C12_Witness ==
    /\ state = "fitted" /\ call_error = "NameError"
    /\ called /\ related_docs # <<>>
    /\ vectorizer = FitVectorizer(corpus)

\* C13: after a fit_transform that raised (ValueError, the code's form of
\* InvalidCorpus) there is no vocabulary and no weight matrix, the retriever
\* never becomes fitted from what the failed call left, and every call made
\* on it raises instead of returning documents.
C13_FailedFitLeavesNothing ==
    /\ [](state = "failed" =>
            /\ error = "ValueError"
            /\ vectorizer = Unfitted
            /\ vector_kb = <<>>
            /\ ~called /\ related_docs = <<>>)
    /\ [][state = "failed" =>
            /\ state' = "failed"
            /\ ~called' /\ related_docs' = <<>>
            /\ call_error' \in {call_error, "NameError", "NotFittedError"}]_vars

\* a corpus of documents without tokens failed to fit and a call on the
\* unfitted vectorizer raised
C13_Witness ==
    /\ state = "failed" /\ error = "ValueError" /\ corpus # <<>>
    /\ call_error = "NotFittedError" /\ ~called

\* the maximal runs of characters of the set chars in s
RECURSIVE RunsFrom(_, _, _, _, _)
RunsFrom(s, i, cur, out, chars) ==
    LET flushed == IF cur = <<>> THEN out ELSE Append(out, cur)
    IN  IF i > Len(s) THEN flushed
        ELSE IF s[i] \in chars THEN RunsFrom(s, i + 1, Append(cur, s[i]), out, chars)
        ELSE RunsFrom(s, i + 1, <<>>, flushed, chars)

Alphanumeric == Range(Lowercase) \cup Range(Uppercase) \cup Digits

\* the terms of a string when it is split at its non-alphanumeric characters
AlnumRuns(s) == RunsFrom(s, 1, <<>>, <<>>, Alphanumeric)

\* the runs of word characters (letters, digits, underscore) of a string
WordRuns(s) == RunsFrom(s, 1, <<>>, <<>>, WordChars)

\* two strings that differ at most in the case of their letters
SameButCase(p, q) ==
    Len(p) = Len(q) /\ \A i \in DOMAIN p : Lower(p[i]) = Lower(q[i])

\* two strings with the same terms between other non-alphanumeric separators
SameButSeparators(p, q) == AlnumRuns(p) = AlnumRuns(q)

\* two strings with the same runs of word characters between other separators
SameButNonWord(p, q) == WordRuns(p) = WordRuns(q)

\* the last call has the top_n of the remembered call
SecondCall == remembered.set /\ called /\ top_n = remembered.top_n

\* C14 as stated: two queries that differ only in letter case, or only in the
\* non-alphanumeric characters between the same sequence of terms, get the
\* same result from one fitted state.
C14_CaseAndSeparatorsIgnored ==
    (SecondCall /\ (\/ SameButCase(query, remembered.query)
                    \/ SameButSeparators(query, remembered.query))) =>
        related_docs = remembered.related_docs

\* C14 amended: two queries that differ only in letter case, or only in the
\* characters other than letters, digits and underscore between the same
\* runs of word characters, have the same tokens, the same query vector and
\* the same result; a query spelled like a corpus document (up to case or
\* such separators) gets that document's row of term weights.  An
\* underscore is a word character: it joins its neighbours into one term.
C14_CaseAndNonWordIgnored ==
    /\ (SecondCall /\ (\/ SameButCase(query, remembered.query)
                       \/ SameButNonWord(query, remembered.query))) =>
           /\ Tokenize(query) = Tokenize(remembered.query)
           /\ Transform(vectorizer, query) = Transform(vectorizer, remembered.query)
           /\ related_docs = remembered.related_docs
    /\ called =>
           \A i \in 1..NDocs :
               (SameButCase(query, corpus[i]) \/ SameButNonWord(query, corpus[i])) =>
                   Transform(vectorizer, query) = vector_kb[i].w

\* a query and the same query in another letter case got the same documents,
\* and the query matches a corpus document up to case
C14_Witness ==
    /\ SecondCall /\ query # remembered.query
    /\ SameButCase(query, remembered.query)
    /\ HasVocabularyTerm(query)
    /\ related_docs = remembered.related_docs /\ related_docs # <<>>
    /\ \E i \in 1..NDocs : query # corpus[i] /\ SameButCase(query, corpus[i])

\* query q is query p with terms added that are not in the vocabulary
AddsUnknownTerms(p, q) ==
    LET tp == Tokenize(p)
        tq == Tokenize(q)
    IN  /\ \A t \in Range(tp) \cup Range(tq) :
               IF t \in vectorizer.vocabulary_
               THEN Count(tq, t) = Count(tp, t)
               ELSE Count(tq, t) >= Count(tp, t)
        /\ \E t \in Range(tq) \ vectorizer.vocabulary_ : Count(tq, t) > Count(tp, t)

\* C15: the query vector has an entry for every vocabulary term and for no
\* other term, so a query with at least one vocabulary term and the same
\* query with terms added that are not in the vocabulary have the same
\* query vector and the same ordered result.
C15_UnknownTermsIgnored ==
    /\ called => DOMAIN Transform(vectorizer, query) = vectorizer.vocabulary_
    /\ (SecondCall /\ HasVocabularyTerm(remembered.query)
           /\ AddsUnknownTerms(remembered.query, query)) =>
           /\ Transform(vectorizer, query) = Transform(vectorizer, remembered.query)
           /\ related_docs = remembered.related_docs

\* a query of two vocabulary terms, then the same with two unknown terms
\* added, with the same documents returned
C15_Witness ==
    /\ SecondCall /\ HasVocabularyTerm(remembered.query)
    /\ AddsUnknownTerms(remembered.query, query)
    /\ Len(Tokenize(query)) = Len(Tokenize(remembered.query)) + 2
    /\ related_docs = remembered.related_docs /\ Len(related_docs) >= 2

\* the tokens of document position i
TokensOf(i) == Tokenize(corpus[i])

\* C16: in the fitted matrix every row has one weight per vocabulary term,
\* and the weight of a term that does not occur in the row's document is 0.
C16_AbsentTermWeighsZero ==
    state = "fitted" =>
        \A i \in 1..NDocs :
            /\ DOMAIN vector_kb[i].w = vectorizer.vocabulary_
            /\ \A t \in vectorizer.vocabulary_ :
                   Count(TokensOf(i), t) = 0 => vector_kb[i].w[t] = 0

\* a fitted document with a positive weight for a term it has and weight 0
\* for a vocabulary term it has not
C16_Witness ==
    /\ state = "fitted"
    /\ \E i \in 1..NDocs : \E t, u \in vectorizer.vocabulary_ :
           /\ Count(TokensOf(i), t) = 0 /\ vector_kb[i].w[t] = 0
           /\ Count(TokensOf(i), u) > 0 /\ vector_kb[i].w[u] > 0

RECURSIVE JoinTokens(_)
JoinTokens(tokens) ==
    IF tokens = <<>> THEN <<>>
    ELSE IF Len(tokens) = 1 THEN tokens[1]
    ELSE tokens[1] \o sp \o JoinTokens(Tail(tokens))

\* the corpus with one more occurrence of term t in document i
MoreOften(docs, i, t) == [docs EXCEPT ![i] = docs[i] \o sp \o t]

\* the corpus with term t taken out of document j: as many documents, one
\* document fewer that contains t
Rarer(docs, j, t) ==
    [docs EXCEPT ![j] = JoinTokens(SelectSeq(Tokenize(docs[j]), LAMBDA x : x # t))]

\* the weight of term t in row i of a matrix: tf * idf and the squared norm
\* of the row it is divided by
Entry(kb, i, t) == [w |-> kb[i].w[t], norm2 |-> kb[i].norm2]

\* x.w / sqrt(x.norm2) <= y.w / sqrt(y.norm2)
WeightLeq(x, y) ==
    IF x.w = 0 THEN TRUE
    ELSE IF y.w = 0 THEN FALSE
    ELSE ~LessDigits(SquareTimes(y.w, x.norm2), SquareTimes(x.w, y.norm2))

\* C17: for a term t that occurs in document i, the weight of t in i, both
\* as tf * idf and after the row's L2 normalization, does not go down when t
\* occurs once more in i (nothing else changed), and does not go down when
\* another document stops containing t (as many documents in the corpus).
C17_WeightMonotone ==
    state = "fitted" =>
        \A i \in 1..NDocs : \A t \in Range(TokensOf(i)) :
            /\ LET more == FitTransform(MoreOften(corpus, i, t))
               IN  /\ vector_kb[i].w[t] <= more[i].w[t]
                   /\ WeightLeq(Entry(vector_kb, i, t), Entry(more, i, t))
            /\ \A j \in 1..NDocs : (j # i /\ t \in Range(TokensOf(j))) =>
                   LET rarer == FitTransform(Rarer(corpus, j, t))
                   IN  /\ vector_kb[i].w[t] <= rarer[i].w[t]
                       /\ WeightLeq(Entry(vector_kb, i, t), Entry(rarer, i, t))

\* a term that occurs twice in a document with another term and also in
\* another document: its weight goes strictly up with one more occurrence,
\* and strictly up when the other document loses it
C17_Witness ==
    /\ state = "fitted"
    /\ \E i, j \in 1..NDocs : \E t \in Range(TokensOf(i)) :
           /\ i # j /\ t \in Range(TokensOf(j))
           /\ Count(TokensOf(i), t) = 2 /\ Cardinality(Range(TokensOf(i))) = 2
           /\ ~WeightLeq(Entry(FitTransform(MoreOften(corpus, i, t)), i, t),
                         Entry(vector_kb, i, t))
           /\ ~WeightLeq(Entry(FitTransform(Rarer(corpus, j, t)), i, t),
                         Entry(vector_kb, i, t))

\* C18: a corpus with at least one document that has a term is fitted
\* without error whatever its other documents are; the matrix has one row
\* per document in corpus order, the row of a document without tokens is
\* all zero, and a call returns such a document by its own position.
C18_EmptyDocumentsTolerated ==
    (state # "unfitted" /\ \E i \in 1..NDocs : TokensOf(i) # <<>>) =>
        /\ state = "fitted" /\ error = "none"
        /\ Len(vector_kb) = NDocs
        /\ \A i \in 1..NDocs :
               /\ vector_kb[i].w = Transform(vectorizer, corpus[i])
               /\ TokensOf(i) = <<>> =>
                      /\ \A t \in vectorizer.vocabulary_ : vector_kb[i].w[t] = 0
                      /\ vector_kb[i].norm2 = 0
        /\ called =>
               \A k \in DOMAIN related_docs_indices :
                   /\ related_docs_indices[k] \in 0..(NDocs - 1)
                   /\ related_docs[k] = corpus[related_docs_indices[k] + 1]

\* the first of two documents has no token, the corpus is fitted, and a call
\* returns both documents, the tokenless one as document 0
C18_Witness ==
    /\ state = "fitted" /\ called /\ NDocs = 2
    /\ corpus[1] # <<>> /\ TokensOf(1) = <<>> /\ TokensOf(2) # <<>>
    /\ vector_kb[1].norm2 = 0
    /\ \E k \in DOMAIN related_docs_indices :
           related_docs_indices[k] = 0 /\ related_docs[k] = corpus[1]

\* C19: with k below the number of documents, what a call with top_n = k
\* returned is exactly the first k elements of what the call with the same
\* query and top_n = k + 1 returns on the same fitted state.
C19_NestedResults ==
    (/\ remembered.set /\ called
     /\ query = remembered.query
     /\ remembered.top_n >= 1 /\ remembered.top_n < NDocs
     /\ top_n = remembered.top_n + 1) =>
        /\ Len(related_docs) = top_n
        /\ remembered.related_docs = SubSeq(related_docs, 1, remembered.top_n)

\* on three documents, two of them tied, a call with top_n = 2 and then the
\* same query with top_n = 3: the first result is the start of the second
C19_Witness ==
    /\ remembered.set /\ called /\ query = remembered.query
    /\ NDocs = 3 /\ remembered.top_n = 2 /\ top_n = 3
    /\ \E i, j \in 1..NDocs : Tied(i, j) /\ LastSims[i].dot > 0
    /\ Len(related_docs) = 3
    /\ remembered.related_docs = SubSeq(related_docs, 1, 2)

\* C20: a call with top_n = 0 raises nothing and returns all N documents
\* ranked; a call with top_n = -k, 0 < k < N, raises nothing and returns
\* N - k documents, the ranking without its k last places; either result is
\* longer than top_n.
C20_NonPositiveTopN ==
    (called /\ top_n <= 0) =>
        /\ error = "none" /\ call_error = "none"
        /\ top_n = 0 =>
               /\ Len(related_docs) = NDocs
               /\ Range(related_docs_indices) = 0..(NDocs - 1)
        /\ (top_n < 0 /\ 0 - top_n < NDocs) => Len(related_docs) = NDocs + top_n
        /\ Len(related_docs) > top_n
        /\ related_docs = SubSeq(Alone(query, NDocs), 1, Len(related_docs))
        /\ \A k \in 1..(Len(related_docs_indices) - 1) :
               ~SimLess(LastSims[related_docs_indices[k] + 1],
                        LastSims[related_docs_indices[k + 1] + 1])
        /\ \A i \in 1..NDocs : ~Returned(i) =>
               \A k \in DOMAIN related_docs_indices :
                   ~SimLess(LastSims[related_docs_indices[k] + 1], LastSims[i])

\* a call with top_n = -1 on three documents returned two of them, and the
\* one left out is strictly less similar than both
C20_Witness ==
    /\ called /\ top_n = 0 - 1 /\ NDocs = 3 /\ Len(related_docs) = 2
    /\ \E i \in 1..NDocs :
           /\ ~Returned(i)
           /\ \A k \in DOMAIN related_docs_indices :
                  SimLess(LastSims[i], LastSims[related_docs_indices[k] + 1])

\* the skills summarised so far by the running forward call, in call order
Summarised ==
    LET calls == SelectSeq(job.called, LAMBDA c : c.predictor = "skill_summary")
    IN  [k \in DOMAIN calls |-> calls[k].tech_skill]

\* the number of skill-identifier calls made so far by the forward call
IdentifierCalls ==
    Cardinality({k \in DOMAIN job.called : job.called[k].predictor = "skill_identifier"})

\* C21: forward calls the skill identifier once, as its first call; the
\* skill-summary calls are made for the entries of the identified list in
\* list order, none left out and none repeated, and with top_k >= 1 the
\* call ends after min(top_k, number of identified skills) of them; a call
\* without top_k runs as with top_k = 3.
C21_SummariesInOrder ==
    /\ job.pc \in {"idle", "l472"} => job.called = <<>>
    /\ job.pc \notin {"idle", "l472"} =>
           /\ IdentifierCalls = 1
           /\ job.called[1].predictor = "skill_identifier"
    /\ Len(Summarised) <= Len(job.tech_skills)
    /\ Summarised = SubSeq(job.tech_skills, 1, Len(Summarised))
    /\ job.top_k_omitted => job.top_k = 3
    /\ job.top_k >= 1 =>
           /\ Len(Summarised) <= Min(job.top_k, Len(job.tech_skills))
           /\ job.pc = "done" =>
                  Len(Summarised) = Min(job.top_k, Len(job.tech_skills))

\* the notebook's run: eight skills identified, top_k left out, the first
\* three summarised
C21_Witness ==
    /\ job.pc = "done" /\ job.top_k_omitted
    /\ job.tech_skills = NotebookSkills
    /\ Summarised = <<"Prompt Engineering", "Model Fine-Tuning", "Custom Model Training">>

\* C22: the stop test is reached only after the skill at the current index
\* has been summarised; with top_k <= 0 it never holds, so the call ends
\* with every identified skill summarised, and it does end.
C22_NonPositiveTopKSummarisesAll ==
    /\ [](job.pc = "l485" => Len(Summarised) = job.i + 1)
    /\ []((job.pc = "l485" /\ job.top_k <= 0) => job.i # job.top_k - 1)
    /\ []((job.pc = "done" /\ job.top_k <= 0) => Summarised = job.tech_skills)
    /\ ((job.pc \notin {"idle", "done"} /\ job.top_k <= 0) ~> job.pc = "done")

\* a call with top_k = 0 has ended with all three identified skills summarised
C22_Witness ==
    /\ job.pc = "done" /\ job.top_k = 0
    /\ Len(job.tech_skills) = 3 /\ Summarised = job.tech_skills

\* the fields of the input other than id are valid
OtherFieldsValid(data) == UsernameErrors(data.username) \cup AgeErrors(data.age) = {}

\* C23: when the other fields are valid, UserProfile(**data) gives a profile
\* exactly when 0 < id < 1000; an id >= 1000 fails the constraint lt=1000
\* (error less_than) and an id <= 0 fails validate_id (error value_error),
\* and a failed call leaves no profile.
C23_IdAcceptedBetween0And1000 ==
    (user.op = "UserProfile" /\ OtherFieldsValid(user.input)) =>
        /\ (user.profile # <<>>) <=> (0 < user.input.id /\ user.input.id < 1000)
        /\ user.input.id >= 1000 =>
               user.error = {[loc |-> "id", type |-> "less_than"]}
        /\ user.input.id <= 0 =>
               user.error = {[loc |-> "id", type |-> "value_error"]}
        /\ user.error # {} => user.profile = <<>>
        /\ user.profile # <<>> => user.error = {} /\ user.profile[1].id = user.input.id

\* the id 0 with every other field valid was rejected by validate_id
C23_Witness ==
    /\ user.op = "UserProfile" /\ OtherFieldsValid(user.input)
    /\ user.input.id = 0
    /\ user.error = {[loc |-> "id", type |-> "value_error"]}
    /\ user.profile = <<>>

\* C24: parsing the JSON dump of a valid profile gives a profile equal to
\* the original in every field but username, which is the original in upper
\* case, and a second JSON round trip of that profile gives it back
\* unchanged; validating the dictionary dump gives a profile equal to the
\* original in every field.
C24_RoundTrips ==
    /\ user.op = "model_validate_json" =>
           /\ user.error = {}
           /\ user.new_user = <<[user.profile[1] EXCEPT !.username = Upper(@)]>>
           /\ LET again == FromJson(ModelDumpJson(user.new_user[1]))
              IN  /\ ValidationErrors(again) = {}
                  /\ Validated(again) = user.new_user[1]
    /\ user.op = "model_validate" =>
           /\ user.error = {}
           /\ user.new_user = user.profile

====
